---- MODULE Spec2Model ----
(***************************************************************************)
(* The two ingestion routines of the repository, raw.weather_raw           *)
(* (berlin-weather/assets/raw/weather_raw.py) and                          *)
(* raw.stackoverflow_api_monthly                                           *)
(* (stackoverflow-trends/assets/raw/stackoverflow_api_raw.py), as one      *)
(* state machine.  A run is one call of a routine's materialize(); the     *)
(* HTTP API is the environment and answers every request with any          *)
(* response of a bounded set.  A table that materialize returns is written *)
(* to the routine's destination table with the declared strategy.          *)
(*                                                                         *)
(* Strings that the code compares or builds (dates) are sequences of       *)
(* character codes, compared the way Python compares str values.           *)
(***************************************************************************)
EXTENDS Integers, Sequences, FiniteSets, TLC

VARIABLES
    run,        \* number of the current run (process invocation)
    routine,    \* "none" | "weather" | "stackexchange" | "nyc_taxi_vars": the
                \* routine (or script) of this run
    pc,         \* position of the run, see PCs
    clock,      \* logical time within the run: every request, response,
                \* sleep and now() advances it; <<run, clock>> is a time
    today,      \* the date the run read: <<year, month, day>>
    env,        \* the environment the run read: start/end or Absent
    req,        \* weather: the (start_date, end_date) passed to fetch_weather_data
    ym,         \* stackexchange: the loop variables <<year, month>>
    rows,       \* stackexchange: the list `rows` built by the loop
    requests,   \* the requests of this run, in order, each with its issue time
    resp,       \* the last response the run received
    err,        \* the exception that left materialize, "none" if none
    errmsg,     \* what the message of that exception is built from
    script,     \* the responses of this run, in order, each with its arrival time
    result,     \* the table materialize returned, NoTable if none
    dest,       \* the destination table of each routine
    dest0,      \* dest as it was when the run began
    lastOk,     \* per routine, the table its latest successful run returned
    prev,       \* the inputs and the outcome of an earlier call that a later
                \* call repeats, NoPrev if none is recorded
    taxi,       \* nyc-taxi vars.py: the variable it read and the values it holds
    dash        \* a dashboard script: what it was given and what it computed

vars == <<run, routine, pc, clock, today, env, req, ym, rows, requests, resp,
          err, errmsg, script, result, dest, dest0, lastOk, prev, taxi, dash>>

(***************************************************************************)
(* Bounds of the model.                                                    *)
(***************************************************************************)
MaxRuns == 2
MaxRows == 2
MaxAhead == 3

(***************************************************************************)
(* Program constants.                                                      *)
(***************************************************************************)
START_YEAR == 2022
START_MONTH == 10

DAILY_VARIABLES ==
    << "weather_code", "temperature_2m_max", "temperature_2m_min",
       "temperature_2m_mean", "precipitation_sum", "rain_sum", "snowfall_sum",
       "precipitation_hours", "wind_speed_10m_max", "sunshine_duration" >>

Routines == {"weather", "stackexchange"}

\* The columns each asset declares in its header.
WeatherSchema == <<"time">> \o DAILY_VARIABLES \o <<"extracted_at">>
SOSchema == <<"month", "question_count", "source", "extracted_at">>
DeclaredSchema == [r \in Routines |-> IF r = "weather" THEN WeatherSchema ELSE SOSchema]
\* The column each asset declares with primary_key: true.
PrimaryKey == [r \in Routines |-> IF r = "weather" THEN "time" ELSE "month"]

(***************************************************************************)
(* Calendar and string helpers.                                            *)
(***************************************************************************)
IsLeap(y) == (y % 4 = 0 /\ y % 100 # 0) \/ y % 400 = 0

DaysInMonth(y, m) ==
    IF m = 2 THEN (IF IsLeap(y) THEN 29 ELSE 28)
    ELSE IF m \in {4, 6, 9, 11} THEN 30 ELSE 31

\* date - Timedelta(days=1)
PrevDay(d) ==
    IF d[3] > 1 THEN <<d[1], d[2], d[3] - 1>>
    ELSE IF d[2] > 1 THEN <<d[1], d[2] - 1, DaysInMonth(d[1], d[2] - 1)>>
    ELSE <<d[1] - 1, 12, 31>>

\* The decimal digits of n >= 0 as character codes ("0" is 48).
RECURSIVE Digits(_)
Digits(n) == IF n < 10 THEN <<48 + n>> ELSE Digits(n \div 10) \o <<48 + (n % 10)>>

\* Zero padding to a width, as %02d / %m / %d / %Y do.
RECURSIVE ZeroPad(_, _)
ZeroPad(s, width) == IF Len(s) >= width THEN s ELSE ZeroPad(<<48>> \o s, width)

\* strftime("%Y-%m-%d"); "-" is 45.
strftime(d) ==
    ZeroPad(Digits(d[1]), 4) \o <<45>> \o ZeroPad(Digits(d[2]), 2)
        \o <<45>> \o ZeroPad(Digits(d[3]), 2)

\* Python's a < b on str: lexicographic by code point, a proper prefix is less.
RECURSIVE StrLT(_, _)
StrLT(a, b) ==
    IF b = <<>> THEN FALSE
    ELSE IF a = <<>> THEN TRUE
    ELSE IF Head(a) # Head(b) THEN Head(a) < Head(b)
    ELSE StrLT(Tail(a), Tail(b))

StrGT(a, b) == StrLT(b, a)

(***************************************************************************)
(* Tables.                                                                 *)
(***************************************************************************)
NoTable == [exists |-> FALSE, columns |-> <<>>, rows |-> <<>>]
Table(cols, rs) == [exists |-> TRUE, columns |-> cols, rows |-> rs]

NoResp == [kind |-> "none", cols |-> <<>>, times |-> <<>>, total |-> 0]

Range(s) == {s[i] : i \in 1..Len(s)}
BoundedSeq(S, n) == UNION {[1..k -> S] : k \in 0..n}

\* df[name] = value: the column is appended and every row gets the value.
SetColumn(df, name, value) ==
    Table(IF name \in Range(df.columns) THEN df.columns
          ELSE Append(df.columns, name),
          [i \in 1..Len(df.rows) |->
              [c \in DOMAIN df.rows[i] \cup {name} |->
                  IF c = name THEN value ELSE df.rows[i][c]]])

(***************************************************************************)
(* The environment: the process environment, the calendar and the API.     *)
(***************************************************************************)
\* An environment variable that is not set.
Absent == <<0>>
environ_get(value, default) == IF value = Absent THEN default ELSE value

DefaultStartDate == strftime(<<2009, 1, 1>>)
DefaultEndDate == strftime(<<2026, 12, 31>>)

\* Dates the weather run may read as today.
WeatherTodays == {<<2026, 12, 31>>, <<2027, 1, 1>>, <<2027, 1, 2>>}
\* Values of BRUIN_START_DATE and BRUIN_END_DATE, in YYYY-MM-DD form.
EnvDates == {Absent} \cup {strftime(d) : d \in {<<2026, 12, 30>>, <<2027, 1, 1>>}}
\* The time values a weather response may carry.
RespTimes == {strftime(d) : d \in {<<2026, 12, 30>>, <<2026, 12, 31>>}}
\* The column sets a weather response's "daily" object may carry.
DailyColumnChoices == {<<"time">> \o DAILY_VARIABLES, DAILY_VARIABLES}

FailureKinds == {"network", "http_error", "not_json", "no_key"}

\* A response carries the arrays of data["daily"]: cols names them and times
\* is the "time" array (a record without one carries empty strings there).
WeatherResponses ==
    {[kind |-> k, cols |-> <<>>, times |-> <<>>, total |-> 0] :
        k \in FailureKinds \cup {"ragged"}}
    \cup {[kind |-> "ok", cols |-> c, total |-> 0,
           times |-> IF "time" \in Range(c) THEN ts ELSE [i \in DOMAIN ts |-> <<>>]] :
            c \in DailyColumnChoices, ts \in BoundedSeq(RespTimes, MaxRows)}

Counts == {7}
SOResponses ==
    {[kind |-> k, cols |-> <<>>, times |-> <<>>, total |-> 0] : k \in FailureKinds}
    \cup {[kind |-> "ok", cols |-> <<>>, times |-> <<>>, total |-> c] : c \in Counts}

\* Months are numbered year * 12 + (month - 1).
MonthIndex(y, m) == y * 12 + (m - 1)
StartIndex == MonthIndex(START_YEAR, START_MONTH)
\* Dates the Stack Exchange run may read as today: from the month before the
\* start month to MaxAhead months after it.
SOTodays ==
    {<<i \div 12, (i % 12) + 1, 15>> : i \in (StartIndex - 1)..(StartIndex + MaxAhead)}

(***************************************************************************)
(* Exceptions.  The message of an exception is the set of the things it    *)
(* is built from; "data" is the decoded body of the response.              *)
(***************************************************************************)
NoMsg == {}
\* requests.get fails: the message names the cause (host, timeout).
ConnectionErrorMsg == {"cause"}
\* raise_for_status: "<status> Client Error: <reason> for url: <url>".
HTTPErrorMsg == {"status_code", "reason", "url"}
\* response.json(): "Expecting value: line 1 column 1 (char 0)".
JSONDecodeErrorMsg == {"msg", "pos"}
\* f"Unexpected API response: missing 'daily' key. Response: {data}"
MissingDailyMsg == {"text", "data"}
\* pd.DataFrame of arrays of different lengths.
RaggedMsg == {"text"}
\* data["total"], df['time']: the message is the key.
KeyErrorMsg == {"key"}

\* The classes an exception is an instance of, its own and those it
\* inherits from: an except clause for any of them catches it.  The three
\* the HTTP library raises are RequestException (an OSError), and its
\* JSONDecodeError is also the json module's, which is a ValueError.
ClassesOf(e) ==
    CASE e = "ConnectionError" -> {"ConnectionError", "RequestException", "OSError", "Exception"}
      [] e = "HTTPError" -> {"HTTPError", "RequestException", "OSError", "Exception"}
      [] e = "JSONDecodeError" ->
            {"JSONDecodeError", "InvalidJSONError", "RequestException", "OSError",
             "json.JSONDecodeError", "ValueError", "Exception"}
      [] e = "json.JSONDecodeError" -> {"json.JSONDecodeError", "ValueError", "Exception"}
      [] e = "ValueError" -> {"ValueError", "Exception"}
      [] e = "KeyError" -> {"KeyError", "LookupError", "Exception"}
      [] OTHER -> {}

(***************************************************************************)
(* raw.weather_raw                                                         *)
(***************************************************************************)
\* The day itself, not the day before it.
Yesterday_Today(t) == strftime(t)

\* yesterday = (datetime.now().date() - pd.Timedelta(days=1)).strftime(...)
Yesterday(t) == strftime(PrevDay(t))

\* The comparison written the other way round.
ClampEndDate_Less(end_date, yesterday) ==
    IF StrLT(end_date, yesterday) THEN yesterday ELSE end_date

\* if end_date > yesterday: end_date = yesterday
ClampEndDate(end_date, yesterday) ==
    IF StrGT(end_date, yesterday) THEN yesterday ELSE end_date

\* The DataFrame built without the last record of the response.
fetch_weather_data_DropLast(r) ==
    CASE r.kind = "network" -> [err |-> "ConnectionError", msg |-> ConnectionErrorMsg, df |-> NoTable]
      [] r.kind = "http_error" -> [err |-> "HTTPError", msg |-> HTTPErrorMsg, df |-> NoTable]
      [] r.kind = "not_json" -> [err |-> "JSONDecodeError", msg |-> JSONDecodeErrorMsg, df |-> NoTable]
      [] r.kind = "no_key" -> [err |-> "ValueError", msg |-> MissingDailyMsg, df |-> NoTable]
      [] r.kind = "ragged" -> [err |-> "ValueError", msg |-> RaggedMsg, df |-> NoTable]
      [] OTHER ->
            [err |-> "none", msg |-> NoMsg,
             df |-> Table(r.cols,
                          [i \in 1..(Len(r.times) - 1) |->
                              [c \in Range(r.cols) |->
                                  IF c = "time" THEN r.times[i] ELSE 0]])]

\* Every failure of the request caught and raised anew as a ValueError.
fetch_weather_data_Wrapped(r) ==
    CASE r.kind = "network" -> [err |-> "ValueError", msg |-> {"text", "cause"}, df |-> NoTable]
      [] r.kind = "http_error" -> [err |-> "ValueError", msg |-> {"text", "cause"}, df |-> NoTable]
      [] r.kind = "not_json" -> [err |-> "ValueError", msg |-> {"text", "cause"}, df |-> NoTable]
      [] r.kind = "no_key" -> [err |-> "ValueError", msg |-> MissingDailyMsg, df |-> NoTable]
      [] r.kind = "ragged" -> [err |-> "ValueError", msg |-> RaggedMsg, df |-> NoTable]
      [] OTHER ->
            [err |-> "none", msg |-> NoMsg,
             df |-> Table(r.cols,
                          [i \in 1..Len(r.times) |->
                              [c \in Range(r.cols) |->
                                  IF c = "time" THEN r.times[i] ELSE 0]])]

\* The DataFrame built newest record first.
fetch_weather_data_Reversed(r) ==
    CASE r.kind = "network" -> [err |-> "ConnectionError", msg |-> ConnectionErrorMsg, df |-> NoTable]
      [] r.kind = "http_error" -> [err |-> "HTTPError", msg |-> HTTPErrorMsg, df |-> NoTable]
      [] r.kind = "not_json" -> [err |-> "JSONDecodeError", msg |-> JSONDecodeErrorMsg, df |-> NoTable]
      [] r.kind = "no_key" -> [err |-> "ValueError", msg |-> MissingDailyMsg, df |-> NoTable]
      [] r.kind = "ragged" -> [err |-> "ValueError", msg |-> RaggedMsg, df |-> NoTable]
      [] OTHER ->
            [err |-> "none", msg |-> NoMsg,
             df |-> Table(r.cols,
                          [i \in 1..Len(r.times) |->
                              [c \in Range(r.cols) |->
                                  IF c = "time" THEN r.times[Len(r.times) + 1 - i] ELSE 0]])]

\* fetch_weather_data from the response on: the exception it raises, or the
\* DataFrame of data["daily"].
fetch_weather_data(r) ==
    CASE r.kind = "network" -> [err |-> "ConnectionError", msg |-> ConnectionErrorMsg, df |-> NoTable]
      [] r.kind = "http_error" -> [err |-> "HTTPError", msg |-> HTTPErrorMsg, df |-> NoTable]
      [] r.kind = "not_json" -> [err |-> "JSONDecodeError", msg |-> JSONDecodeErrorMsg, df |-> NoTable]
      [] r.kind = "no_key" -> [err |-> "ValueError", msg |-> MissingDailyMsg, df |-> NoTable]
      [] r.kind = "ragged" -> [err |-> "ValueError", msg |-> RaggedMsg, df |-> NoTable]
      [] OTHER ->
            [err |-> "none", msg |-> NoMsg,
             df |-> Table(r.cols,
                          [i \in 1..Len(r.times) |->
                              [c \in Range(r.cols) |->
                                  IF c = "time" THEN r.times[i] ELSE 0]])]

\* materialize after fetch_weather_data: the extraction timestamp and the
\* prints, of which df['time'] needs the column.
weather_materialize(f, now) ==
    IF f.err # "none" THEN [err |-> f.err, msg |-> f.msg, df |-> NoTable]
    ELSE IF "time" \in Range(f.df.columns)
         THEN [err |-> "none", msg |-> NoMsg, df |-> SetColumn(f.df, "extracted_at", now)]
         ELSE [err |-> "KeyError", msg |-> KeyErrorMsg,
               df |-> SetColumn(f.df, "extracted_at", now)]

\* A handler that returns what was built so far when an exception occurs.
Propagate_Partial(o) ==
    [pc |-> "returned", err |-> o.err, msg |-> o.msg, result |-> o.df]

\* A handler that turns an exception into an empty table.
Propagate_Swallow(o) ==
    IF o.err # "none"
    THEN [pc |-> "returned", err |-> o.err, msg |-> o.msg, result |-> Table(<<>>, <<>>)]
    ELSE [pc |-> "returned", err |-> "none", msg |-> NoMsg, result |-> o.df]

\* A handler that drops the exception and goes back to the request.
Propagate_Retry(o) ==
    IF o.err # "none"
    THEN [pc |-> "loop", err |-> "none", msg |-> NoMsg, result |-> NoTable]
    ELSE [pc |-> "returned", err |-> "none", msg |-> NoMsg, result |-> o.df]

\* No handler surrounds the body of materialize: an exception leaves it and
\* nothing is returned (o.df is the local DataFrame at that point); otherwise
\* the DataFrame is returned.
Propagate(o) ==
    IF o.err # "none"
    THEN [pc |-> "raised", err |-> o.err, msg |-> o.msg, result |-> NoTable]
    ELSE [pc |-> "returned", err |-> "none", msg |-> NoMsg, result |-> o.df]

(***************************************************************************)
(* raw.stackoverflow_api_monthly                                           *)
(***************************************************************************)
\* data.get("total", 0) in place of data["total"].
fetch_monthly_count_get(r) ==
    CASE r.kind = "network" -> [err |-> "ConnectionError", msg |-> ConnectionErrorMsg, total |-> 0]
      [] r.kind = "http_error" -> [err |-> "HTTPError", msg |-> HTTPErrorMsg, total |-> 0]
      [] r.kind = "not_json" -> [err |-> "JSONDecodeError", msg |-> JSONDecodeErrorMsg, total |-> 0]
      [] OTHER -> [err |-> "none", msg |-> NoMsg, total |-> r.total]

\* Without resp.raise_for_status(): the body of an error response is decoded
\* like any other, and it has no "total".
fetch_monthly_count_NoStatusCheck(r) ==
    CASE r.kind = "network" -> [err |-> "ConnectionError", msg |-> ConnectionErrorMsg, total |-> 0]
      [] r.kind = "http_error" -> [err |-> "KeyError", msg |-> KeyErrorMsg, total |-> 0]
      [] r.kind = "not_json" -> [err |-> "JSONDecodeError", msg |-> JSONDecodeErrorMsg, total |-> 0]
      [] r.kind = "no_key" -> [err |-> "KeyError", msg |-> KeyErrorMsg, total |-> 0]
      [] OTHER -> [err |-> "none", msg |-> NoMsg, total |-> r.total]

\* fetch_monthly_count from the response on.
fetch_monthly_count(r) ==
    CASE r.kind = "network" -> [err |-> "ConnectionError", msg |-> ConnectionErrorMsg, total |-> 0]
      [] r.kind = "http_error" -> [err |-> "HTTPError", msg |-> HTTPErrorMsg, total |-> 0]
      [] r.kind = "not_json" -> [err |-> "JSONDecodeError", msg |-> JSONDecodeErrorMsg, total |-> 0]
      [] r.kind = "no_key" -> [err |-> "KeyError", msg |-> KeyErrorMsg, total |-> 0]
      [] OTHER -> [err |-> "none", msg |-> NoMsg, total |-> r.total]

\* A list that is not made anew and keeps what an earlier call left in it.
NewRows_Kept(left) == left

\* rows = []: whatever the name held before, the list is empty.
NewRows(left) == <<>>

\* The days from 1970-01-01 to the first day of year y (1970 or later), and
\* from the first day of year y to the first day of its month m.
RECURSIVE DaysToYear(_)
DaysToYear(y) ==
    IF y <= 1970 THEN 0 ELSE DaysToYear(y - 1) + (IF IsLeap(y - 1) THEN 366 ELSE 365)

RECURSIVE DaysToMonth(_, _)
DaysToMonth(y, m) == IF m = 1 THEN 0 ELSE DaysToMonth(y, m - 1) + DaysInMonth(y, m - 1)

\* int(datetime(y, m, d, hh, mi, ss).timestamp()): the seconds since the
\* epoch.  The datetime is naive, so the process's time zone applies; the
\* model's zone is UTC.
timestamp(y, m, d, hh, mi, ss) ==
    ((DaysToYear(y) + DaysToMonth(y, m) + (d - 1)) * 24 + hh) * 3600 + mi * 60 + ss

\* February always of 28 days.
monthrange_NoLeap(y, m) == IF m = 2 THEN 28 ELSE DaysInMonth(y, m)

\* calendar.monthrange(year, month)[1]
monthrange(y, m) == DaysInMonth(y, m)

from_ts(y, m) == timestamp(y, m, 1, 0, 0, 0)
to_ts(y, m) == timestamp(y, m, monthrange(y, m), 23, 59, 59)

\* The calendar date when the clock of a run that began on date t shows c:
\* the run begins TicksToMonthEnd ticks before the month ends.
TicksToMonthEnd == 50
CalendarAt(t, c) ==
    IF c >= TicksToMonthEnd
    THEN (IF t[2] = 12 THEN <<t[1] + 1, 1, 1>> ELSE <<t[1], t[2] + 1, 1>>)
    ELSE t

\* The lengths a delay between two requests may have, in ticks: none, the
\* quarter of a second of time.sleep(0.25), and one that outlasts the month.
Delays == {0, 1, TicksToMonthEnd}

\* The date read anew by every test of the loop.
LoopDate_Now(t, c) == CalendarAt(t, c)

\* The date the loop test compares with: today, read once before the loop.
LoopDate(t, c) == t

\* The test written on the years alone.
LoopCond_YearOnly(cur, t) == cur[1] <= t[1]

\* (year, month) <= (today.year, today.month), Python's tuple order.
LoopCond(cur, t) == cur[1] < t[1] \/ (cur[1] = t[1] /\ cur[2] <= t[2])

\* The wrap test written month >= 12.
NextMonth_GE(cur) ==
    IF cur[2] + 1 >= 12 THEN <<cur[1] + 1, 1>> ELSE <<cur[1], cur[2] + 1>>

\* month += 1; if month > 12: month = 1; year += 1
NextMonth(cur) ==
    IF cur[2] + 1 > 12 THEN <<cur[1] + 1, 1>> ELSE <<cur[1], cur[2] + 1>>

\* f"{year}-{month:02d}-01"
MonthKey(cur) == Digits(cur[1]) \o <<45>> \o ZeroPad(Digits(cur[2]), 2) \o <<45, 48, 49>>

MonthRow(cur, count) ==
    [month |-> MonthKey(cur), question_count |-> count, source |-> "stackexchange_api"]

\* pd.DataFrame(rows): the columns are the keys of the dicts, none for [].
DataFrame(rs) ==
    Table(IF rs = <<>> THEN <<>> ELSE <<"month", "question_count", "source">>, rs)

\* The timestamp taken in the loop, once for each row as it is appended.
so_materialize_PerRow(rs, now) ==
    [err |-> "none", msg |-> NoMsg,
     df |-> Table(IF rs = <<>> THEN <<>>
                  ELSE <<"month", "question_count", "source", "extracted_at">>,
                  [i \in DOMAIN rs |->
                      [c \in DOMAIN rs[i] \cup {"extracted_at"} |->
                          IF c = "extracted_at" THEN <<now[1], i>> ELSE rs[i][c]]])]

\* df = pd.DataFrame(rows); df["extracted_at"] = datetime.now()
so_materialize(rs, now) ==
    [err |-> "none", msg |-> NoMsg, df |-> SetColumn(DataFrame(rs), "extracted_at", now)]

(***************************************************************************)
(* nyc-taxi vars.py: a script that reads its parameters and prints them.   *)
(***************************************************************************)
\* Python's None.
None == <<-1>>

\* What BRUIN_VARS may hold: nothing (not set), text that is not JSON, a
\* JSON object without taxi_types, a JSON object with taxi_types.
BruinVarsValues == {"absent", "not_json", "object", "object_with_taxi_types"}

\* The module body: os.environ.get without a default gives None for a
\* variable that is not set, os.environ[...] raises KeyError for one,
\* json.loads raises on text that is not JSON, dict.get gives None for a
\* missing key.  The names assigned before an exception keep their values.
vars_script(s, e, v) ==
    CASE v = "absent" ->
            [err |-> "KeyError", msg |-> KeyErrorMsg, start_date |-> environ_get(s, None),
             end_date |-> environ_get(e, None), taxi_types |-> "unset"]
      [] v = "not_json" ->
            [err |-> "json.JSONDecodeError", msg |-> JSONDecodeErrorMsg,
             start_date |-> environ_get(s, None), end_date |-> environ_get(e, None),
             taxi_types |-> "unset"]
      [] OTHER ->
            [err |-> "none", msg |-> NoMsg, start_date |-> environ_get(s, None),
             end_date |-> environ_get(e, None),
             taxi_types |-> IF v = "object_with_taxi_types" THEN "list" ELSE "None"]

(***************************************************************************)
(* The destination: materialization type table, strategy create+replace.   *)
(***************************************************************************)
\* The strategy append: the new rows are added to the old ones.
CreateReplace_Append(old, new) == Table(new.columns, old.rows \o new.rows)

CreateReplace(old, new) == new

(***************************************************************************)
(* The state machine.                                                      *)
(***************************************************************************)
PCs == {"not_started", "request", "sleep", "loop", "returned", "raised", "persisted",
        "exited"}

\* No earlier call is recorded.
NoPrev == [routine |-> "none", today |-> <<0, 0, 0>>,
           env |-> [start |-> Absent, end |-> Absent], script |-> <<>>,
           asked |-> <<>>, err |-> "none", result |-> NoTable]

\* vars.py has not run.
NoTaxi == [bruin_vars |-> "unread", start_date |-> <<>>, end_date |-> <<>>,
           taxi_types |-> "unset"]

\* No dashboard script has run.
NoDash == [app |-> "none", input |-> <<>>, done |-> FALSE, output |-> <<>>]

\* The ingestion side before its first run.
Idle ==
    /\ run = 1
    /\ routine = "none"
    /\ pc = "not_started"
    /\ clock = 0
    /\ today = <<0, 0, 0>>
    /\ env = [start |-> Absent, end |-> Absent]
    /\ req = [start_date |-> <<>>, end_date |-> <<>>]
    /\ ym = <<0, 0>>
    /\ rows = <<>>
    /\ requests = <<>>
    /\ resp = NoResp
    /\ err = "none"
    /\ errmsg = NoMsg
    /\ script = <<>>
    /\ result = NoTable
    /\ dest = [r \in Routines |-> NoTable]
    /\ dest0 = [r \in Routines |-> NoTable]
    /\ lastOk = [r \in Routines |-> NoTable]
    /\ prev = NoPrev
    /\ taxi = NoTaxi

Init == Idle /\ dash = NoDash

\* weather materialize() up to the HTTP request of fetch_weather_data.
WeatherStart(t, s, e) ==
    /\ pc = "not_started"
    /\ LET start_date == environ_get(s, DefaultStartDate)
           end_date == ClampEndDate(environ_get(e, DefaultEndDate), Yesterday(t))
       IN /\ req' = [start_date |-> start_date, end_date |-> end_date]
          /\ requests' = Append(requests, [start_date |-> start_date,
                                           end_date |-> end_date, at |-> <<run, clock>>])
    /\ routine' = "weather"
    /\ today' = t
    /\ env' = [start |-> s, end |-> e]
    /\ pc' = "request"
    /\ clock' = clock + 1
    /\ UNCHANGED <<run, ym, rows, resp, err, errmsg, script, result, dest, dest0,
                   lastOk, prev, taxi, dash>>

\* The response arrives: the rest of fetch_weather_data and of materialize.
WeatherRespond(r) ==
    /\ pc = "request"
    /\ routine = "weather"
    /\ LET o == Propagate(weather_materialize(fetch_weather_data(r), <<run, clock + 1>>))
       IN /\ pc' = o.pc
          /\ err' = o.err
          /\ errmsg' = o.msg
          /\ result' = o.result
          /\ lastOk' = IF o.pc = "returned"
                       THEN [lastOk EXCEPT ![routine] = o.result] ELSE lastOk
    /\ resp' = r
    /\ script' = Append(script, [resp |-> r, at |-> <<run, clock>>])
    /\ clock' = clock + 1
    /\ UNCHANGED <<run, routine, today, env, req, ym, rows, requests, dest, dest0,
                   prev, taxi, dash>>

\* stackexchange materialize() up to the first test of a loop that begins
\* at the month first.
SOStartFrom(t, first) ==
    /\ pc = "not_started"
    /\ routine' = "stackexchange"
    /\ today' = t
    /\ rows' = NewRows(rows)
    /\ ym' = first
    /\ pc' = "loop"
    /\ UNCHANGED <<run, clock, env, req, requests, resp, err, errmsg, script, result,
                   dest, dest0, lastOk, prev, taxi, dash>>

\* year, month = START_YEAR, START_MONTH
SOStart(t) == SOStartFrom(t, <<START_YEAR, START_MONTH>>)

\* The loop test holds: fetch_monthly_count issues the month's request.
SORequest ==
    /\ pc = "loop"
    /\ routine = "stackexchange"
    /\ LoopCond(ym, LoopDate(today, clock))
    /\ requests' = Append(requests, [year |-> ym[1], month |-> ym[2],
                                     fromdate |-> from_ts(ym[1], ym[2]),
                                     todate |-> to_ts(ym[1], ym[2]),
                                     at |-> <<run, clock>>])
    /\ pc' = "request"
    /\ clock' = clock + 1
    /\ UNCHANGED <<run, routine, today, env, req, ym, rows, resp, err, errmsg, script,
                   result, dest, dest0, lastOk, prev, taxi, dash>>

\* The response arrives: the rest of fetch_monthly_count and of the loop body
\* up to time.sleep.
SORespond(r) ==
    /\ pc = "request"
    /\ routine = "stackexchange"
    /\ LET f == fetch_monthly_count(r)
           o == Propagate([err |-> f.err, msg |-> f.msg, df |-> DataFrame(rows)])
       IN IF f.err # "none"
          THEN /\ pc' = o.pc
               /\ err' = o.err
               /\ errmsg' = o.msg
               /\ result' = o.result
               /\ lastOk' = IF o.pc = "returned"
                            THEN [lastOk EXCEPT ![routine] = o.result] ELSE lastOk
               /\ UNCHANGED <<rows, ym>>
          ELSE /\ rows' = Append(rows, MonthRow(ym, f.total))
               /\ ym' = NextMonth(ym)
               /\ pc' = "sleep"
               /\ UNCHANGED <<err, errmsg, result, lastOk>>
    /\ resp' = r
    /\ script' = Append(script, [resp |-> r, at |-> <<run, clock>>])
    /\ clock' = clock + 1
    /\ UNCHANGED <<run, routine, today, env, req, requests, dest, dest0, prev, taxi, dash>>

\* A sleep of d ticks returns.
SOSleepFor(d) ==
    /\ pc = "sleep"
    /\ pc' = "loop"
    /\ clock' = clock + d
    /\ UNCHANGED <<run, routine, today, env, req, ym, rows, requests, resp, err,
                   errmsg, script, result, dest, dest0, lastOk, prev, taxi, dash>>

\* The loop without its sleep.
SOSleep_None == SOSleepFor(0)

\* time.sleep(0.25) returns: one tick.
SOSleep == SOSleepFor(1)

\* The loop test fails: the DataFrame is built, stamped and returned.
SOFinish ==
    /\ pc = "loop"
    /\ ~LoopCond(ym, LoopDate(today, clock))
    /\ LET o == Propagate(so_materialize(rows, <<run, clock + 1>>))
       IN /\ pc' = o.pc
          /\ err' = o.err
          /\ errmsg' = o.msg
          /\ result' = o.result
          /\ lastOk' = IF o.pc = "returned"
                       THEN [lastOk EXCEPT ![routine] = o.result] ELSE lastOk
    /\ clock' = clock + 1
    /\ UNCHANGED <<run, routine, today, env, req, ym, rows, requests, resp, script,
                   dest, dest0, prev, taxi, dash>>

\* vars.py runs from its first line to its last, or to the exception.
VarsScript(s, e, v) ==
    /\ pc = "not_started"
    /\ LET o == vars_script(s, e, v)
       IN /\ taxi' = [bruin_vars |-> v, start_date |-> o.start_date,
                      end_date |-> o.end_date, taxi_types |-> o.taxi_types]
          /\ err' = o.err
          /\ errmsg' = o.msg
          /\ pc' = IF o.err # "none" THEN "raised" ELSE "exited"
    /\ routine' = "nyc_taxi_vars"
    /\ env' = [start |-> s, end |-> e]
    /\ clock' = clock + 1
    /\ UNCHANGED <<run, today, req, ym, rows, requests, resp, script, result, dest,
                   dest0, lastOk, prev, dash>>

\* The returned table is written to the routine's destination table.
Materialization ==
    /\ pc = "returned"
    /\ dest' = [dest EXCEPT ![routine] = CreateReplace(dest[routine], result)]
    /\ pc' = "persisted"
    /\ UNCHANGED <<run, routine, clock, today, env, req, ym, rows, requests, resp,
                   err, errmsg, script, result, dest0, lastOk, prev, taxi, dash>>

\* The next invocation: a fresh process, nothing kept but the destination.
NewRun ==
    /\ pc \in {"persisted", "raised", "exited"}
    /\ run < MaxRuns
    /\ run' = run + 1
    /\ routine' = "none"
    /\ pc' = "not_started"
    /\ today' = <<0, 0, 0>>
    /\ env' = [start |-> Absent, end |-> Absent]
    /\ req' = [start_date |-> <<>>, end_date |-> <<>>]
    /\ ym' = <<0, 0>>
    /\ rows' = <<>>
    /\ requests' = <<>>
    /\ resp' = NoResp
    /\ err' = "none"
    /\ errmsg' = NoMsg
    /\ script' = <<>>
    /\ result' = NoTable
    /\ taxi' = NoTaxi
    /\ dest0' = dest
    /\ clock' = 0
    /\ UNCHANGED <<dest, lastOk, prev, dash>>

Next ==
    \/ \E t \in WeatherTodays, s \in EnvDates, e \in EnvDates : WeatherStart(t, s, e)
    \/ \E r \in WeatherResponses : WeatherRespond(r)
    \/ \E t \in SOTodays : SOStart(t)
    \/ SORequest
    \/ \E r \in SOResponses : SORespond(r)
    \/ SOSleep
    \/ SOFinish
    \/ \E s \in EnvDates, e \in EnvDates, v \in BruinVarsValues : VarsScript(s, e, v)
    \/ Materialization
    \/ NewRun

Spec == Init /\ [][Next]_vars

(***************************************************************************)
(* The same materialize() called twice in one process, the second call     *)
(* with the date, the environment and the responses of the first.          *)
(***************************************************************************)
\* The first call has ended and is recorded; the second begins.  Nothing of
\* the process is reset but what observes a call.
SecondCall ==
    /\ pc \in {"returned", "raised"}
    /\ prev = NoPrev
    /\ prev' = [routine |-> routine, today |-> today, env |-> env,
                script |-> [i \in DOMAIN script |-> script[i].resp],
                asked |-> [i \in DOMAIN requests |-> [requests[i] EXCEPT !.at = <<0, 0>>]],
                err |-> err, result |-> result]
    /\ run' = run + 1
    /\ routine' = "none"
    /\ pc' = "not_started"
    /\ clock' = 0
    /\ requests' = <<>>
    /\ resp' = NoResp
    /\ err' = "none"
    /\ errmsg' = NoMsg
    /\ script' = <<>>
    /\ result' = NoTable
    /\ UNCHANGED <<today, env, req, ym, rows, dest, dest0, lastOk, taxi, dash>>

\* The call is the first, or it is the recorded routine with the recorded
\* date and environment.
Repeats(r, t, e) ==
    prev = NoPrev \/ (prev.routine = r /\ prev.today = t /\ prev.env = e)

\* The call is the first, or the response is the one the recorded call got
\* to its request of the same position.
Replays(r) ==
    prev = NoPrev \/ (Len(script) < Len(prev.script) /\ prev.script[Len(script) + 1] = r)

NextTwice ==
    \/ \E t \in WeatherTodays, s \in EnvDates, e \in EnvDates :
          Repeats("weather", t, [start |-> s, end |-> e]) /\ WeatherStart(t, s, e)
    \/ \E r \in WeatherResponses : Replays(r) /\ WeatherRespond(r)
    \/ \E t \in SOTodays : Repeats("stackexchange", t, env) /\ SOStart(t)
    \/ SORequest
    \/ \E r \in SOResponses : Replays(r) /\ SORespond(r)
    \/ SOSleep
    \/ SOFinish
    \/ SecondCall

SpecTwice == Init /\ [][NextTwice]_vars

(***************************************************************************)
(* The Stack Exchange materialize() called twice with the same date and    *)
(* the same responses: first as written, then with delays of any length    *)
(* between the requests.                                                   *)
(***************************************************************************)
NextDelay ==
    \/ \E t \in SOTodays : Repeats("stackexchange", t, env) /\ SOStart(t)
    \/ SORequest
    \/ \E r \in SOResponses : Replays(r) /\ SORespond(r)
    \/ prev = NoPrev /\ SOSleep
    \/ \E d \in Delays : prev # NoPrev /\ SOSleepFor(d)
    \/ SOFinish
    \/ SecondCall

SpecDelay == Init /\ [][NextDelay]_vars

(***************************************************************************)
(* The month loop begun at any of a set of months, so that                 *)
(* fetch_monthly_count is called for Februaries of leap and other years    *)
(* and across the turn of a year.  All timestamps are below 2^31.          *)
(***************************************************************************)
FirstMonths ==
    { <<2022, 10>>, <<2022, 12>>, <<2023, 1>>, <<2023, 2>>, <<2024, 1>>, <<2024, 2>>,
      <<2026, 4>>, <<2028, 2>>, <<2037, 10>> }

\* The 15th of the month k months after the month f.
MonthsAfter(f, k) ==
    <<(MonthIndex(f[1], f[2]) + k) \div 12, ((MonthIndex(f[1], f[2]) + k) % 12) + 1, 15>>

NextMonths ==
    \/ \E f \in FirstMonths, k \in 0..2 : SOStartFrom(MonthsAfter(f, k), f)
    \/ SORequest
    \/ \E r \in SOResponses : SORespond(r)
    \/ SOSleep
    \/ SOFinish

SpecMonths == Init /\ [][NextMonths]_vars

(***************************************************************************)
(* The Stack Exchange routine alone, run to its end: the interpreter goes  *)
(* on to the next statement, requests.get returns or raises within its     *)
(* timeout of 30 seconds, and time.sleep returns.                          *)
(***************************************************************************)
NextLoop ==
    \/ \E t \in SOTodays : SOStart(t)
    \/ SORequest
    \/ \E r \in SOResponses : SORespond(r)
    \/ SOSleep
    \/ SOFinish
    \/ Materialization
    \/ NewRun

LoopFairness ==
    /\ WF_vars(SORequest)
    /\ WF_vars(\E r \in SOResponses : SORespond(r))
    /\ WF_vars(SOSleep)
    /\ WF_vars(SOFinish)

SpecLoop == Init /\ [][NextLoop]_vars /\ LoopFairness

(***************************************************************************)
(* The dashboards (assets/reports/streamlit_app.py).  A dashboard script   *)
(* computes on what it is given; dash holds what the script was given      *)
(* (input) and, once the code has run (done), what it computed (output).   *)
(***************************************************************************)
Given(app, inputs) ==
    /\ Idle
    /\ dash \in {[app |-> app, input |-> i, done |-> FALSE, output |-> <<>>] : i \in inputs}

Computed(app, out) ==
    /\ dash.app = app
    /\ ~dash.done
    /\ dash' = [dash EXCEPT !.done = TRUE, !.output = out]
    /\ UNCHANGED <<run, routine, pc, clock, today, env, req, ym, rows, requests, resp,
                   err, errmsg, script, result, dest, dest0, lastOk, prev, taxi>>

(***************************************************************************)
(* berlin-weather dashboard: the winters and what is flagged as current.   *)
(* The table read is staging.weather_daily ordered by date, with the       *)
(* calendar year and month of each day in its columns year and month; one  *)
(* row of the model stands for the days of one month.  The table begins    *)
(* where the ingestion begins by default and ends at the latest month      *)
(* ingested, which is what the script is given.                            *)
(***************************************************************************)
DataStartYear == 2009
LastDataYear == 2028

LatestMonths == {<<y, m>> : y \in DataStartYear..LastDataYear, m \in 1..12}

\* SELECT * FROM staging.weather_daily ORDER BY date
daily(latest) ==
    [i \in 1..((latest[1] - DataStartYear) * 12 + latest[2]) |->
        [year |-> DataStartYear + ((i - 1) \div 12), month |-> ((i - 1) % 12) + 1]]

\* The winter taken to be the calendar year of the day.
winter_year_Calendar(r) == r.year

\* lambda r: r["year"] if r["month"] == 12 else r["year"] - 1
winter_year(r) == IF r.month = 12 THEN r.year ELSE r.year - 1

\* lambda y: f"{y}/{(y + 1) % 100:02d}"; "/" is 47.
winter_label(y) == Digits(y) \o <<47>> \o ZeroPad(Digits((y + 1) % 100), 2)

\* "2008/09"
Excluded == <<50, 48, 48, 56, 47, 48, 57>>

\* The frame winter: the Dec/Jan/Feb rows with their winter, less 2008/09.
winter(d) ==
    LET IsWinterMonth(r) == r.month \in {12, 1, 2}
        months == SelectSeq(d, IsWinterMonth)
        labelled == [i \in 1..Len(months) |->
                        [year |-> months[i].year, month |-> months[i].month,
                         winter_year |-> winter_year(months[i]),
                         winter_label |-> winter_label(winter_year(months[i]))]]
        Kept(r) == r.winter_label # Excluded
    IN SelectSeq(labelled, Kept)

\* What .max() gives on a column without values.
NaN == <<-1, -1>>

\* winter["winter_label"].max(): the greatest str.
CURRENT_WINTER(w) ==
    LET labels == {w[i].winter_label : i \in 1..Len(w)}
    IN IF labels = {} THEN NaN
       ELSE CHOOSE l \in labels : \A k \in labels : ~StrLT(l, k)

\* freezing and sky: one row per winter_label, flagged when it is CURRENT_WINTER.
by_winter_label(w) ==
    {[winter_label |-> w[i].winter_label,
      is_current |-> w[i].winter_label = CURRENT_WINTER(w)] : i \in 1..Len(w)}

\* jan_harsh: one row per year with a January, flagged when the year is 2026.
jan_harsh(d) ==
    {[year |-> d[i].year, is_current |-> d[i].year = 2026] :
        i \in {j \in 1..Len(d) : d[j].month = 1}}

\* The lambda of in_current_winter on a streak's first or last day.
in_current_winter(year, month) ==
    \/ month = 12 /\ year = 2025
    \/ month \in {1, 2} /\ year = 2026

\* streaks: a streak begins and ends on days of the table.
streaks(d) ==
    {[year |-> d[i].year, month |-> d[i].month,
      in_current_winter |-> in_current_winter(d[i].year, d[i].month)] : i \in 1..Len(d)}

\* The lambda of winter_summary["era"].
era(y) ==
    IF y = 2025 THEN "2025/26"
    ELSE IF 2013 <= y /\ y <= 2024 THEN "Mild era (2013-24)"
    ELSE "Early (2009-12)"

winter_summary(w) ==
    {[winter_label |-> w[i].winter_label, winter_year |-> w[i].winter_year,
      is_current |-> w[i].winter_label = CURRENT_WINTER(w),
      era |-> era(w[i].winter_year)] : i \in 1..Len(w)}

\* The script from its queries to its charts.
berlin_app(latest) ==
    LET d == daily(latest)
        w == winter(d)
    IN [daily |-> d, winter |-> w, CURRENT_WINTER |-> CURRENT_WINTER(w),
        freezing |-> by_winter_label(w), sky |-> by_winter_label(w),
        jan_harsh |-> jan_harsh(d), streaks |-> streaks(d),
        winter_summary |-> winter_summary(w)]

InitBerlin == Given("berlin", LatestMonths)

Berlin == Computed("berlin", berlin_app(dash.input))

NextBerlin == Berlin

SpecBerlin == InitBerlin /\ [][NextBerlin]_vars

(***************************************************************************)
(* chess-dot-com dashboard: load_token() and the connection.  The script   *)
(* is given what its four sources hold: st.secrets, the two environment    *)
(* variables and the token entry of .bruin.yml.                            *)
(***************************************************************************)
\* There is no secrets file: using st.secrets raises.
NoSecrets == <<-2>>
\* A value that is not a str (a TOML or YAML number): it has no .strip.
NotStr == <<-3>>
\* .bruin.yml does not exist; it exists and cannot be read as the mapping expected.
NoFile == <<-4>>
BadFile == <<-5>>

\* Python's truth value of None, a str, a nonzero number.
Truthy(v) == v \notin {None, <<>>}

\* " s " in the secrets, e in MOTHERDUCK_TOKEN, "b" (quoted) in
\* BRUIN_CONNECTION_MOTHERDUCK_PROD_TOKEN, "f" (quoted) in the file.
SecretsValues == {NoSecrets, Absent, NotStr, <<>>, <<32, 115, 32>>}
EnvValues == {Absent, <<>>, <<101>>}
BruinEnvValues == {Absent, <<>>, <<34, 98, 34>>}
FileValues == {NoFile, BadFile, Absent, NotStr, <<>>, <<34, 102, 34>>}

TokenSources ==
    {[secrets |-> a, env |-> b, bruin_env |-> c, file |-> d] :
        a \in SecretsValues, b \in EnvValues, c \in BruinEnvValues, d \in FileValues}

\* str.strip(chars): the characters of chars removed from both ends.
RECURSIVE lstrip(_, _)
lstrip(v, chars) ==
    IF v # <<>> /\ Head(v) \in chars THEN lstrip(Tail(v), chars) ELSE v

RECURSIVE rstrip(_, _)
rstrip(v, chars) ==
    IF v # <<>> /\ v[Len(v)] \in chars THEN rstrip(SubSeq(v, 1, Len(v) - 1), chars) ELSE v

strip(v, chars) == rstrip(lstrip(v, chars), chars)

\* .strip().strip('"'): white space, then quotes (34).
clean(v) == strip(strip(v, {32, 9, 10, 13}), {34})

\* load_token(): what it returns, and whether it raised.
load_token(src) ==
    LET env_token == IF Truthy(environ_get(src.env, None))
                     THEN src.env ELSE environ_get(src.bruin_env, None)
        token_val == environ_get(src.file, None)
    IN IF src.secrets \notin {NoSecrets, Absent, NotStr}
       THEN [raised |-> FALSE, token |-> clean(src.secrets)]
       ELSE IF Truthy(env_token)
       THEN [raised |-> FALSE, token |-> clean(env_token)]
       ELSE IF src.file \in {NoFile, BadFile}
       THEN [raised |-> FALSE, token |-> None]
       ELSE IF ~Truthy(token_val)
       THEN [raised |-> FALSE, token |-> None]
       ELSE IF token_val = NotStr
       THEN [raised |-> FALSE, token |-> None]
       ELSE [raised |-> FALSE, token |-> clean(token_val)]

\* The script around load_token(): st.stop() without a token, else the
\* connection of get_conn(token) at the first query.
chess_app(src) ==
    LET r == load_token(src)
    IN [token |-> r.token, raised |-> r.raised,
        stopped |-> ~r.raised /\ ~Truthy(r.token),
        connected |-> ~r.raised /\ Truthy(r.token)]

InitToken == Given("chess", TokenSources)

LoadToken == Computed("chess", chess_app(dash.input))

NextToken == LoadToken

SpecToken == InitToken /\ [][NextToken]_vars

(***************************************************************************)
(* berlin-weather dashboard: ordinal(n).                                   *)
(***************************************************************************)
MaxOrdinal == 125

\* "st", "nd", "rd", "th" as character codes.
Suffixes == [st |-> <<115, 116>>, nd |-> <<110, 100>>, rd |-> <<114, 100>>,
             th |-> <<116, 104>>]

\* The key looked up without the test on 11, 12, 13.
ordinal_NoTeens(n) ==
    LET key == n % 10
        table == <<Suffixes.st, Suffixes.nd, Suffixes.rd>>
    IN Digits(n) \o (IF key \in DOMAIN table THEN table[key] ELSE Suffixes.th)

\* {1: "st", 2: "nd", 3: "rd"}.get(n % 10 * (n % 100 not in (11, 12, 13)), "th"),
\* a bool multiplying as 0 or 1; then f"{n}{s}".
ordinal(n) ==
    LET key == (n % 10) * (IF n % 100 \notin {11, 12, 13} THEN 1 ELSE 0)
        table == <<Suffixes.st, Suffixes.nd, Suffixes.rd>>
    IN Digits(n) \o (IF key \in DOMAIN table THEN table[key] ELSE Suffixes.th)

InitOrdinal == Given("ordinal", 1..MaxOrdinal)

Ordinal == Computed("ordinal", ordinal(dash.input))

NextOrdinal == Ordinal

SpecOrdinal == InitOrdinal /\ [][NextOrdinal]_vars

(***************************************************************************)
(* Notions the properties are stated in, computed on calendar dates and    *)
(* not on the strings the code compares.                                   *)
(***************************************************************************)
\* The digit a character code denotes.
Digit(c) == c - 48

\* The date a YYYY-MM-DD string denotes.
ParseDate(s) ==
    << 1000 * Digit(s[1]) + 100 * Digit(s[2]) + 10 * Digit(s[3]) + Digit(s[4]),
       10 * Digit(s[6]) + Digit(s[7]),
       10 * Digit(s[9]) + Digit(s[10]) >>

\* The days of the year before the first of month m.
DaysBefore(y, m) ==
    <<0, 31, 59, 90, 120, 151, 181, 212, 243, 273, 304, 334>>[m]
        + (IF m > 2 /\ IsLeap(y) THEN 1 ELSE 0)

\* The number of the day in the proleptic Gregorian calendar.
DayNum(d) ==
    365 * (d[1] - 1) + ((d[1] - 1) \div 4) - ((d[1] - 1) \div 100)
        + ((d[1] - 1) \div 400) + DaysBefore(d[1], d[2]) + d[3]

DayOf(s) == DayNum(ParseDate(s))

Max(a, b) == IF a >= b THEN a ELSE b

Returned == pc \in {"returned", "persisted"}
ConfiguredStart == IF env.start = Absent THEN DefaultStartDate ELSE env.start
ConfiguredEnd == IF env.end = Absent THEN DefaultEndDate ELSE env.end
WeatherRequested == routine = "weather" /\ pc # "not_started"
\* Every record of the response lies in the window the request named.
ResponseInWindow ==
    \A i \in 1..Len(resp.times) :
        /\ DayOf(req.start_date) <= DayOf(resp.times[i])
        /\ DayOf(resp.times[i]) <= DayOf(req.end_date)

(***************************************************************************)
(* C1.  Clamping.                                                          *)
(***************************************************************************)
\* The end date of the one request is the one passed to fetch_weather_data;
\* a configured end date after yesterday is replaced by yesterday, and the
\* end date of the request is never after yesterday.
C1_RequestClamped ==
    WeatherRequested =>
        /\ Len(requests) = 1
        /\ requests[1].end_date = req.end_date
        /\ DayOf(ConfiguredEnd) > DayNum(today) - 1
              => DayOf(req.end_date) = DayNum(today) - 1
        /\ DayOf(req.end_date) <= DayNum(today) - 1

\* C1 as stated: a configured end date after yesterday is passed as
\* yesterday, no request reaches today or a later day, and no row of the
\* output is for today or a later date.
C1_Original ==
    /\ C1_RequestClamped
    /\ (routine = "weather" /\ Returned) =>
          \A i \in 1..Len(result.rows) :
              DayOf(result.rows[i]["time"]) < DayNum(today)

\* C1 as amended: a configured end date after yesterday is passed as
\* yesterday, no request reaches today or a later day, and no row of the
\* output is for today or a later date provided every record the API
\* returned lies in the requested window (the rows are not filtered).
C1_ClampToYesterday ==
    /\ C1_RequestClamped
    /\ (routine = "weather" /\ Returned /\ ResponseInWindow) =>
          \A i \in 1..Len(result.rows) :
              DayOf(result.rows[i]["time"]) < DayNum(today)

\* A weather run whose configured end date was clamped returned rows.
C1_Witness ==
    /\ routine = "weather"
    /\ Returned
    /\ DayOf(ConfiguredEnd) > DayNum(today) - 1
    /\ ResponseInWindow
    /\ Len(result.rows) >= 1

(***************************************************************************)
(* C2.  A 2xx response without the expected key.                           *)
(***************************************************************************)
\* C2: when the response lacks the expected top-level key, the run ends with
\* the routine's error for it (ValueError for weather, KeyError for Stack
\* Exchange), returns no table and leaves the destination as it was.
C2_MissingKeyFails ==
    resp.kind = "no_key" =>
        /\ pc = "raised"
        /\ err = (IF routine = "weather" THEN "ValueError" ELSE "KeyError")
        /\ ~result.exists
        /\ dest = dest0

\* A Stack Exchange run met a response without "total" after a good month.
C2_Witness ==
    /\ routine = "stackexchange"
    /\ resp.kind = "no_key"
    /\ Len(rows) >= 1
    /\ pc = "raised"

(***************************************************************************)
(* C3.  One request and one row per month.                                 *)
(***************************************************************************)
\* The number of months from the start month to the month of today.
MonthsToToday == Max(0, MonthIndex(today[1], today[2]) - StartIndex + 1)

\* C3: a successful Stack Exchange run has issued exactly one request per
\* month from October 2022 to the month of today, in calendar order, and
\* returns one row per such month keyed by the month's first day; every
\* month number is in 1..12.
C3_OneRequestPerMonth ==
    (routine = "stackexchange" /\ Returned) =>
        /\ Len(requests) = MonthsToToday
        /\ Len(result.rows) = MonthsToToday
        /\ \A i \in 1..MonthsToToday :
              LET k == StartIndex + i - 1
              IN /\ requests[i].year = k \div 12
                 /\ requests[i].month = (k % 12) + 1
                 /\ requests[i].month \in 1..12
                 /\ Len(result.rows[i]["month"]) = 10
                 /\ ParseDate(result.rows[i]["month"]) = <<k \div 12, (k % 12) + 1, 1>>

\* A successful Stack Exchange run went past December into January.
C3_Witness ==
    /\ routine = "stackexchange"
    /\ Returned
    /\ today[1] = START_YEAR + 1
    /\ Len(result.rows) >= 4

(***************************************************************************)
(* C4.  One failed month aborts the Stack Exchange run.                    *)
(***************************************************************************)
\* C4: when the request of a month fails (network failure, non-2xx status,
\* undecodable body or missing "total"), the run has raised, no table is
\* returned, and the rows collected for the earlier months reach neither
\* the result nor the destination.
C4_FailedMonthAborts ==
    (routine = "stackexchange" /\ resp.kind \in FailureKinds) =>
        /\ pc = "raised"
        /\ err # "none"
        /\ ~result.exists
        /\ dest = dest0
        /\ lastOk["stackexchange"] = dest0["stackexchange"]

\* A Stack Exchange run failed with a non-2xx status after two good months.
C4_Witness ==
    /\ routine = "stackexchange"
    /\ resp.kind = "http_error"
    /\ Len(rows) >= 2
    /\ pc = "raised"

(***************************************************************************)
(* C5.  NotStarted -> Fetching -> Success | Failed.                        *)
(***************************************************************************)
\* The states of the run that hold: NotStarted before materialize acts,
\* Fetching while it requests, waits and loops, Success once it has returned
\* a table, Failed once an exception has left it.
RunStates ==
    (IF pc = "not_started" THEN {"NotStarted"} ELSE {})
    \cup (IF pc \in {"loop", "request", "sleep"} THEN {"Fetching"} ELSE {})
    \cup (IF result.exists THEN {"Success"} ELSE {})
    \cup (IF err # "none" THEN {"Failed"} ELSE {})

AllowedSteps ==
    { <<"NotStarted", "Fetching">>, <<"Fetching", "Fetching">>,
      <<"Fetching", "Success">>, <<"Fetching", "Failed">>,
      <<"Success", "Success">>, <<"Failed", "Failed">> }

\* C5: a run of an ingestion routine is in exactly one of NotStarted,
\* Fetching, Success and Failed;
\* it begins in NotStarted, and within a run every step is NotStarted to
\* Fetching, Fetching to Fetching, Success or Failed, or stays in Success or
\* in Failed: the two are terminal and exclude each other, and Fetching is
\* never entered again.
C5_StateMachine ==
    /\ RunStates = {"NotStarted"}
    /\ [][ routine' \in Routines \cup {"none"} =>
             /\ Cardinality(RunStates') = 1
             /\ run' = run => \E a \in RunStates, b \in RunStates' : <<a, b>> \in AllowedSteps
             /\ run' # run => RunStates' = {"NotStarted"} ]_vars

\* A Stack Exchange run failed at its third request.
C5_Witness ==
    /\ routine = "stackexchange"
    /\ pc = "raised"
    /\ Len(requests) = 3
    /\ RunStates = {"Failed"}

(***************************************************************************)
(* C6.  The destination holds the latest successful run's table.           *)
(***************************************************************************)
\* C6: except between the return of materialize and the write of its table,
\* the destination table of each routine is exactly the table the routine's
\* latest successful run returned, and all its rows were extracted by one
\* run: no row of an earlier run is left.
C6_DestinationIsLatest ==
    \A r \in Routines :
        \/ (pc = "returned" /\ r = routine)
        \/ /\ dest[r] = lastOk[r]
           /\ \A i, j \in 1..Len(dest[r].rows) :
                 dest[r].rows[i]["extracted_at"][1] = dest[r].rows[j]["extracted_at"][1]

\* A second successful run of a routine has replaced a table with rows.
C6_Witness ==
    /\ run = 2
    /\ pc = "persisted"
    /\ Len(dest0[routine].rows) >= 1
    /\ Len(dest[routine].rows) >= 1
    /\ dest[routine] # dest0[routine]

(***************************************************************************)
(* C7.  A failed run hands over nothing.                                   *)
(***************************************************************************)
\* The response makes fetch or materialize raise.
FailureSeen ==
    \/ resp.kind \in FailureKinds \cup {"ragged"}
    \/ routine = "weather" /\ resp.kind = "ok" /\ "time" \notin Range(resp.cols)

\* C7: once fetch or materialize has raised, the exception has left
\* materialize, no table (complete or partial) is returned, and the
\* destination tables are what they were when the run began.
C7_FailedRunHandsNoTable ==
    (FailureSeen \/ err # "none" \/ pc = "raised") =>
        /\ pc = "raised"
        /\ err # "none"
        /\ ~result.exists
        /\ dest = dest0

\* A weather run failed after the fetch (the response has no time column)
\* while the destination held rows of an earlier run.
C7_Witness ==
    /\ run = 2
    /\ routine = "weather"
    /\ pc = "raised"
    /\ err = "KeyError"
    /\ Len(dest["weather"].rows) >= 1

(***************************************************************************)
(* C8.  start <= end in every weather request.                             *)
(***************************************************************************)
\* C8 as stated: in every request of the weather routine the start date is
\* not after the end date.
C8_StartNotAfterEnd ==
    routine = "weather" =>
        \A i \in 1..Len(requests) :
            DayOf(requests[i].start_date) <= DayOf(requests[i].end_date)

(***************************************************************************)
(* C9.  An empty window yields zero rows.                                  *)
(***************************************************************************)
WindowReversed ==
    \/ DayOf(ConfiguredEnd) < DayOf(ConfiguredStart)
    \/ DayOf(req.end_date) < DayOf(req.start_date)

\* C9 as stated: a weather run whose window ends before it starts ends by
\* returning a table of zero rows.
C9_EmptyWindowZeroRows ==
    (routine = "weather" /\ pc \in {"returned", "persisted", "raised"} /\ WindowReversed) =>
        /\ Returned
        /\ Len(result.rows) = 0

(***************************************************************************)
(* C10.  The row count of a returned table.                                *)
(***************************************************************************)
WindowDays == DayOf(req.end_date) - DayOf(req.start_date) + 1

\* C10 as stated: a table returned for a window with start <= end has as
\* many rows as the window has days (weather) or months (Stack Exchange),
\* whatever the response holds.
C10_Original ==
    Returned =>
        /\ (routine = "weather" /\ WindowDays >= 1) => Len(result.rows) = WindowDays
        /\ (routine = "stackexchange" /\ MonthsToToday >= 1)
              => Len(result.rows) = MonthsToToday

\* C10 as amended: a table the weather routine returns has as many rows as
\* the response has daily records, whatever the window; a table the Stack
\* Exchange routine returns has as many rows as there are months from the
\* start month to the current month, whatever the responses hold.
C10_RowCount ==
    Returned =>
        /\ routine = "weather" => Len(result.rows) = Len(resp.times)
        /\ routine = "stackexchange" => Len(result.rows) = MonthsToToday

\* A weather run returned a table whose row count is not the number of days
\* of its window.
C10_Witness ==
    /\ routine = "weather"
    /\ Returned
    /\ WindowDays >= 1
    /\ Len(result.rows) >= 1
    /\ Len(result.rows) # WindowDays

(***************************************************************************)
(* C11.  The returned table has the declared columns.                      *)
(***************************************************************************)
\* The names of the columns of a table, and of each of its rows.
ColumnsOf(t) == Range(t.columns)

\* C11: every table a materialize returns has exactly the columns its asset
\* declares (weather: time, the ten daily variables, extracted_at; Stack
\* Exchange: month, question_count, source, extracted_at), none missing and
\* none extra, in the table and in each of its rows, whatever response led to
\* the table and also when the table has no rows.
C11_DeclaredColumns ==
    Returned =>
        /\ ColumnsOf(result) = Range(DeclaredSchema[routine])
        /\ Len(result.columns) = Len(DeclaredSchema[routine])
        /\ \A i \in 1..Len(result.rows) :
              DOMAIN result.rows[i] = Range(DeclaredSchema[routine])

(***************************************************************************)
(* C12.  A repeated call returns the same table.                           *)
(***************************************************************************)
\* A table without its extracted_at column.
WithoutExtractedAt(t) ==
    [exists |-> t.exists,
     columns |-> SelectSeq(t.columns, LAMBDA c : c # "extracted_at"),
     rows |-> [i \in DOMAIN t.rows |->
                  [c \in DOMAIN t.rows[i] \ {"extracted_at"} |-> t.rows[i][c]]]]

SecondCallEnded == prev # NoPrev /\ pc \in {"returned", "raised"}

\* C12: when materialize is called a second time with the same window, the
\* same current date and the same API responses, it ends as the first call
\* did, and the table it returns has the rows of the first call's table, in
\* the same order and with the same values in every column but
\* extracted_at: nothing the first call left behind affects the second.
C12_SecondCallSameTable ==
    SecondCallEnded =>
        /\ err = prev.err
        /\ result.exists = prev.result.exists
        /\ WithoutExtractedAt(result) = WithoutExtractedAt(prev.result)

\* Both calls of the Stack Exchange routine returned a table of two rows or
\* more; the tables differ, in extracted_at only.
C12_Witness ==
    /\ SecondCallEnded
    /\ routine = "stackexchange"
    /\ pc = "returned"
    /\ Len(result.rows) >= 2
    /\ Len(prev.result.rows) >= 2
    /\ result # prev.result

(***************************************************************************)
(* C13.  The primary key is unique.                                        *)
(***************************************************************************)
\* The values of the primary key column of the returned table, in row order
\* (a table without the column has none).
Keys ==
    IF PrimaryKey[routine] \in ColumnsOf(result)
    THEN [i \in DOMAIN result.rows |-> result.rows[i][PrimaryKey[routine]]]
    ELSE <<>>

\* C13: in every table a materialize returns, no two rows have the same
\* value of the primary key (time for weather, month for Stack Exchange).
C13_KeyUnique ==
    Returned => \A i, j \in DOMAIN Keys : i # j => Keys[i] # Keys[j]

(***************************************************************************)
(* C14.  The weather table is the response, record by record.              *)
(***************************************************************************)
\* C14: when the weather routine returns a table for a response of n daily
\* records, the table has n rows, and the time of the i-th row is the i-th
\* time value of the response, unchanged: the keys of the table are the
\* time values of the response in the order of the response.
C14_ResponsePreserved ==
    (routine = "weather" /\ Returned) =>
        /\ Len(result.rows) = Len(resp.times)
        /\ \A i \in 1..Len(resp.times) : result.rows[i]["time"] = resp.times[i]

\* A table of two rows for a response whose two records are of different
\* days, the later one first.
C14_Witness ==
    /\ routine = "weather"
    /\ Returned
    /\ Len(resp.times) = 2
    /\ DayOf(resp.times[1]) > DayOf(resp.times[2])
    /\ Len(result.rows) = 2

(***************************************************************************)
(* C15.  A non-2xx response or an undecodable payload aborts the run.      *)
(***************************************************************************)
\* The message of the exception that left the run includes the body of the
\* response.
MessageHasBody == "data" \in errmsg

\* The response is a non-2xx one or one whose payload is not JSON.
BadResponse == resp.kind \in {"http_error", "not_json"}

\* C15 as stated: a non-2xx response or a payload that is not JSON aborts
\* the run with an error whose message includes the body of the response.
C15_Original ==
    BadResponse => (pc = "raised" /\ err # "none" /\ MessageHasBody)

\* C15: in both routines a non-2xx response aborts the run with the HTTP
\* library's HTTPError, whose message is built from the status code, the
\* reason and the URL, and a payload that is not JSON aborts it with the
\* library's JSONDecodeError, whose message is the decoder's complaint and
\* the position; no table is returned, and neither message includes the
\* body of the response.
C15_BadResponseAborts ==
    BadResponse =>
        /\ pc = "raised"
        /\ ~result.exists
        /\ err = (IF resp.kind = "http_error" THEN "HTTPError" ELSE "JSONDecodeError")
        /\ errmsg = (IF resp.kind = "http_error" THEN HTTPErrorMsg ELSE JSONDecodeErrorMsg)
        /\ ~MessageHasBody

\* A Stack Exchange run whose second month was answered with a non-2xx
\* response has ended with HTTPError.
C15_Witness ==
    /\ routine = "stackexchange"
    /\ Len(requests) = 2
    /\ resp.kind = "http_error"
    /\ pc = "raised"
    /\ err = "HTTPError"

(***************************************************************************)
(* C16.  The schema error carries the raw response.                        *)
(***************************************************************************)
\* C16: in both routines, when the decoded response lacks the expected key
\* (daily, total), the run ends with a schema error whose message includes
\* the response.
C16_SchemaErrorHasResponse ==
    resp.kind = "no_key" =>
        /\ pc = "raised"
        /\ err = (IF routine = "weather" THEN "ValueError" ELSE "KeyError")
        /\ MessageHasBody

(***************************************************************************)
(* C17.  Missing key and transport failure are told apart.                 *)
(***************************************************************************)
\* The causes of a transport failure, and the class each routine raises
\* when the expected key is missing.
TransportCauses == {"network", "http_error", "not_json"}
SchemaKind == [r \in Routines |-> IF r = "weather" THEN "ValueError" ELSE "KeyError"]

TransportFailed == pc = "raised" /\ routine \in Routines /\ resp.kind \in TransportCauses
KeyMissing == pc = "raised" /\ routine \in Routines /\ resp.kind = "no_key"

\* C17 as stated: no transport cause produces an error of the kind used for
\* the missing key, and the missing key produces no error of a kind used
\* for a transport failure: a handler for one kind never catches the other.
C17_Original ==
    /\ TransportFailed => SchemaKind[routine] \notin ClassesOf(err)
    /\ KeyMissing => "RequestException" \notin ClassesOf(err)

\* C17: in each routine the class raised for the missing key (ValueError,
\* KeyError) is never the class raised for a transport cause
\* (ConnectionError, HTTPError, JSONDecodeError); every transport error is
\* a RequestException and the missing-key error is not, so a handler for
\* RequestException tells the two apart.  For Stack Exchange a handler for
\* KeyError catches no transport error; for weather a handler for
\* ValueError catches the missing key and also the undecodable payload,
\* whose JSONDecodeError is a ValueError.
C17_DistinctClasses ==
    /\ TransportFailed =>
          /\ err # SchemaKind[routine]
          /\ "RequestException" \in ClassesOf(err)
          /\ (SchemaKind[routine] \in ClassesOf(err)) <=>
                (routine = "weather" /\ resp.kind = "not_json")
    /\ KeyMissing =>
          /\ err = SchemaKind[routine]
          /\ "RequestException" \notin ClassesOf(err)

\* A weather run ended by a payload that is not JSON: the error is a
\* JSONDecodeError.
C17_Witness ==
    /\ routine = "weather"
    /\ TransportFailed
    /\ resp.kind = "not_json"
    /\ err = "JSONDecodeError"

(***************************************************************************)
(* C18.  No retry, and no request after a failure.                         *)
(***************************************************************************)
\* What a request asks for: the window, or the month.
Asked(q) ==
    IF routine = "weather" THEN <<q.start_date, q.end_date>> ELSE <<q.year, q.month>>

\* The i-th request of the run was answered and fetch raised on the answer.
RequestFailed(i) == i <= Len(script) /\ script[i].resp.kind # "ok"

\* C18: within a run no window or month is requested twice; a weather run
\* that has begun has issued exactly one request; requests are issued one
\* at a time, each after the answer to the one before; and once fetch has
\* raised on the answer to a request, that request is the last of the run.
C18_NoRetry ==
    routine \in Routines =>
        /\ routine = "weather" => Len(requests) = 1
        /\ \A i, j \in 1..Len(requests) : i # j => Asked(requests[i]) # Asked(requests[j])
        /\ Len(script) <= Len(requests)
        /\ Len(requests) <= Len(script) + 1
        /\ \A i \in 1..Len(requests) : RequestFailed(i) => Len(requests) = i

\* A Stack Exchange run with months still to fetch has ended at the failure
\* of its second request, and no third request was issued.
C18_Witness ==
    /\ routine = "stackexchange"
    /\ pc = "raised"
    /\ Len(requests) = 2
    /\ RequestFailed(2)
    /\ LoopCond(NextMonth(ym), today)

(***************************************************************************)
(* C19.  An absent environment variable falls back to a default.           *)
(***************************************************************************)
VarsScriptRan == routine = "nyc_taxi_vars" /\ pc # "not_started"

\* C19: when BRUIN_START_DATE, BRUIN_END_DATE or BRUIN_VARS is not set, the
\* script that reads it goes on with a fixed default: the weather routine
\* requests from 2009-01-01 and to 2026-12-31 (or yesterday, if earlier),
\* and vars.py neither ends with an exception nor holds None in start_date,
\* end_date or taxi_types.
C19_AbsentFallsBack ==
    /\ WeatherRequested =>
          /\ env.start = Absent => req.start_date = DefaultStartDate
          /\ env.end = Absent => req.end_date \in {DefaultEndDate, Yesterday(today)}
    /\ VarsScriptRan =>
          /\ env.start = Absent => taxi.start_date # None
          /\ env.end = Absent => taxi.end_date # None
          /\ taxi.bruin_vars = "absent" => (pc = "exited" /\ taxi.taxi_types # "None")

(***************************************************************************)
(* C20.  One extraction timestamp, taken after the last fetch.             *)
(***************************************************************************)
\* Time a is before time b.
Before(a, b) == a[1] < b[1] \/ (a[1] = b[1] /\ a[2] < b[2])

\* C20: in every returned table all rows have the same extracted_at, and it
\* is a time after every request of the run was issued and after every
\* response of the run arrived.
C20_OneTimestampAfterFetch ==
    Returned =>
        \A i \in DOMAIN result.rows :
            /\ result.rows[i]["extracted_at"] = result.rows[1]["extracted_at"]
            /\ \A k \in DOMAIN requests :
                  Before(requests[k].at, result.rows[i]["extracted_at"])
            /\ \A k \in DOMAIN script :
                  Before(script[k].at, result.rows[i]["extracted_at"])

\* A Stack Exchange table of three rows, after three requests and their
\* responses.
C20_Witness ==
    /\ routine = "stackexchange"
    /\ Returned
    /\ Len(result.rows) = 3
    /\ Len(requests) = 3
    /\ Len(script) = 3

(***************************************************************************)
(* C21.  The delay between requests does not change what is observed.      *)
(***************************************************************************)
\* The months (or windows) a sequence of requests asks for, in order.
AskedIn(rs) == [i \in DOMAIN rs |-> [rs[i] EXCEPT !.at = <<0, 0>>]]

\* C21: a Stack Exchange run given the date and the responses of the run as
\* written, and delays of any length between its requests (none, a quarter
\* of a second, one that lasts into the next month), requests the same
\* months in the same order (at every point of the run the months requested
\* so far are the first months of the run as written), ends the same way
\* and returns the same table but for extracted_at.
C21_DelayIrrelevant ==
    /\ prev # NoPrev =>
          /\ Len(requests) <= Len(prev.asked)
          /\ AskedIn(requests) = SubSeq(prev.asked, 1, Len(requests))
    /\ SecondCallEnded =>
          /\ AskedIn(requests) = prev.asked
          /\ err = prev.err
          /\ WithoutExtractedAt(result) = WithoutExtractedAt(prev.result)

\* The delayed run slept into the next month and returned the table of the
\* run as written, of two rows or more.
C21_Witness ==
    /\ SecondCallEnded
    /\ pc = "returned"
    /\ CalendarAt(today, clock)[2] # today[2]
    /\ Len(result.rows) >= 2
    /\ Len(result.rows) = Len(prev.result.rows)

(***************************************************************************)
(* C22.  The clamp changes nothing but an end date that is too late.       *)
(***************************************************************************)
\* C22: the start date passed to fetch_weather_data and sent in the request
\* is always the configured one, and a configured end date that is not
\* after yesterday (yesterday itself included) is passed and sent as it is.
C22_ClampFrame ==
    WeatherRequested =>
        /\ req.start_date = ConfiguredStart
        /\ requests[1].start_date = ConfiguredStart
        /\ DayOf(ConfiguredEnd) <= DayNum(today) - 1 =>
              /\ req.end_date = ConfiguredEnd
              /\ requests[1].end_date = ConfiguredEnd

\* A weather run whose configured end date is exactly yesterday, with a
\* start date set in the environment.
C22_Witness ==
    /\ WeatherRequested
    /\ env.start # Absent
    /\ env.end # Absent
    /\ DayOf(ConfiguredEnd) = DayNum(today) - 1
    /\ req.end_date = env.end

(***************************************************************************)
(* C23.  Requests one after the other, the delay between them.             *)
(***************************************************************************)
\* C23: in a Stack Exchange run at most one request is unanswered at any
\* time, and it is unanswered exactly while the run waits for a response;
\* every request but the first is issued after the response to the request
\* before it has arrived and been handled (the tick of its arrival) and
\* after the delay of one more tick has passed.
C23_SequentialWithDelay ==
    routine = "stackexchange" =>
        /\ Len(requests) - Len(script) \in {0, 1}
        /\ (pc = "request") <=> (Len(requests) = Len(script) + 1)
        /\ \A i \in 2..Len(requests) :
              /\ script[i - 1].at[1] = requests[i].at[1]
              /\ requests[i].at[2] >= script[i - 1].at[2] + 1 + 1

\* The third request of a Stack Exchange run is unanswered; the two before
\* it were answered.
C23_Witness ==
    /\ routine = "stackexchange"
    /\ pc = "request"
    /\ Len(requests) = 3
    /\ Len(script) = 2

(***************************************************************************)
(* C24.  The range of seconds requested for a month.                       *)
(***************************************************************************)
\* The seconds from the epoch to the first second of a calendar day.
SecondsTo(d) == 86400 * (DayNum(d) - DayNum(<<1970, 1, 1>>))

\* The first day of the month after the month of a request.
FirstOfNext(q) == IF q.month = 12 THEN <<q.year + 1, 1, 1>> ELSE <<q.year, q.month + 1, 1>>

\* The number of days the range of a request covers.
DaysCovered(q) == (q.todate + 1 - q.fromdate) \div 86400

\* C24: the request for a month asks for the seconds from the first second
\* of the month's first day to the last second of its last calendar day, the
\* second before the next month begins; the range covers 28, 29, 30 or 31
\* whole days, fromdate is less than todate, and the fromdate of a month is
\* the todate of the month requested before it plus one second.
C24_MonthRange ==
    routine = "stackexchange" =>
        \A i \in DOMAIN requests :
            /\ requests[i].fromdate = SecondsTo(<<requests[i].year, requests[i].month, 1>>)
            /\ requests[i].todate + 1 = SecondsTo(FirstOfNext(requests[i]))
            /\ requests[i].fromdate < requests[i].todate
            /\ DaysCovered(requests[i]) \in 28..31
            /\ DaysCovered(requests[i]) * 86400 = requests[i].todate + 1 - requests[i].fromdate
            /\ i > 1 => requests[i].fromdate = requests[i - 1].todate + 1

\* February 2024 was requested with a range of 29 days, and March after it.
C24_Witness ==
    /\ routine = "stackexchange"
    /\ \E i \in DOMAIN requests :
          /\ requests[i].year = 2024
          /\ requests[i].month = 2
          /\ DaysCovered(requests[i]) = 29
          /\ Len(requests) > i

(***************************************************************************)
(* C25.  The month loop ends.                                              *)
(***************************************************************************)
InLoop == routine = "stackexchange" /\ pc \in {"loop", "request", "sleep"}

\* C25: a Stack Exchange run that has entered its loop leaves materialize,
\* with a table or with an exception; the loop never makes more iterations
\* (requests, rows) than there are months from October 2022 to the month of
\* today, and a run that returns has made exactly that many: none, with no
\* request and no row, when the month of today is before October 2022.
C25_LoopTerminates ==
    /\ [](routine = "stackexchange" =>
            /\ Len(requests) <= MonthsToToday
            /\ Len(rows) <= MonthsToToday
            /\ Returned => (Len(requests) = MonthsToToday /\ Len(result.rows) = MonthsToToday)
            /\ (Returned /\ LoopCond(today, <<START_YEAR, START_MONTH - 1>>)) =>
                  (requests = <<>> /\ result.rows = <<>>))
    /\ InLoop ~> (pc \in {"returned", "raised"})

\* A run in September 2022 has returned without a request.
C25_Witness ==
    /\ routine = "stackexchange"
    /\ pc = "returned"
    /\ today[1] = START_YEAR
    /\ today[2] < START_MONTH
    /\ requests = <<>>
    /\ script = <<>>

(***************************************************************************)
(* C29.  ordinal(n).                                                       *)
(***************************************************************************)
\* The number a string of decimal digits denotes.
RECURSIVE DecimalValue(_)
DecimalValue(s) ==
    IF s = <<>> THEN 0
    ELSE 10 * DecimalValue(SubSeq(s, 1, Len(s) - 1)) + Digit(s[Len(s)])

\* The English suffix of n.
EnglishSuffix(n) ==
    LET last == n % 10
        teen == n % 100 \in {11, 12, 13}
    IN CASE last = 1 /\ ~teen -> Suffixes.st
         [] last = 2 /\ ~teen -> Suffixes.nd
         [] last = 3 /\ ~teen -> Suffixes.rd
         [] OTHER -> Suffixes.th

OrdinalDone == dash.app = "ordinal" /\ dash.done

\* C29: for n >= 1, ordinal(n) is the decimal digits of n followed by "st",
\* "nd" or "rd" when the last digit of n is 1, 2 or 3 and n mod 100 is not 11,
\* 12 or 13, and by "th" otherwise.
C29_OrdinalSuffix ==
    OrdinalDone =>
        LET out == dash.output
            k == Len(out) - 2
        IN /\ k >= 1
           /\ \A i \in 1..k : Digit(out[i]) \in 0..9
           /\ out[1] # 48
           /\ DecimalValue(SubSeq(out, 1, k)) = dash.input
           /\ SubSeq(out, k + 1, k + 2) = EnglishSuffix(dash.input)

\* ordinal(111) has been computed: last digit 1, and 111 mod 100 = 11.
C29_Witness ==
    /\ OrdinalDone
    /\ dash.input = 111
    /\ dash.output = <<49, 49, 49, 116, 104>>

(***************************************************************************)
(* C26.  The winter of a day.                                              *)
(***************************************************************************)
BerlinDone == dash.app = "berlin" /\ dash.done

\* The rows of the frame winter that stand for the month (y, m).
WinterRowsOf(y, m) ==
    {i \in 1..Len(dash.output.winter) :
        dash.output.winter[i].year = y /\ dash.output.winter[i].month = m}

\* The winter the month (y, m) belongs to: December to the winter that begins
\* in its year, January and February to the one that began the year before.
WinterOf(y, m) == IF m = 12 THEN y ELSE y - 1

\* The label y/(y+1 mod 100, two digits).
IsLabelOf(l, y) ==
    /\ Len(l) = 7
    /\ DecimalValue(SubSeq(l, 1, 4)) = y
    /\ l[5] = 47
    /\ DecimalValue(SubSeq(l, 6, 7)) = (y + 1) % 100

\* C26: every December, January and February day of the table is in the
\* frame winter once, with the winter of its December (the year before for
\* January and February) and the label "y/(y+1 mod 100, two digits)", unless
\* that winter is 2008/09, whose days are not in the frame; the days of the
\* other months are not in the frame.
C26_OneWinterPerDay ==
    BerlinDone =>
        \A i \in 1..Len(dash.output.daily) :
            LET y == dash.output.daily[i].year
                m == dash.output.daily[i].month
                found == WinterRowsOf(y, m)
            IN IF m \in {12, 1, 2} /\ WinterOf(y, m) # 2008
               THEN /\ Cardinality(found) = 1
                    /\ \A j \in found :
                          /\ dash.output.winter[j].winter_year = WinterOf(y, m)
                          /\ IsLabelOf(dash.output.winter[j].winter_label, WinterOf(y, m))
               ELSE found = {}

\* December 2025, January 2026 and February 2026 are labelled "2025/26", and
\* January 2009 is in the table and not in the frame.
C26_Witness ==
    /\ BerlinDone
    /\ dash.output.daily[1] = [year |-> 2009, month |-> 1]
    /\ WinterRowsOf(2009, 1) = {}
    /\ \A ym2 \in {<<2025, 12>>, <<2026, 1>>, <<2026, 2>>} :
          \E j \in WinterRowsOf(ym2[1], ym2[2]) :
              dash.output.winter[j].winter_label = <<50, 48, 50, 53, 47, 50, 54>>

(***************************************************************************)
(* C27.  What is flagged as current.                                       *)
(***************************************************************************)
\* The winters flagged as current in the freezing and sky charts.
ChartWinters ==
    {r.winter_year : r \in {x \in dash.output.winter_summary :
        \E c \in dash.output.freezing \cup dash.output.sky :
            c.is_current /\ c.winter_label = x.winter_label}}

\* The winters of the Januaries flagged as current in the harshness chart.
JanuaryWinters ==
    {WinterOf(r.year, 1) : r \in {x \in dash.output.jan_harsh : x.is_current}}

\* The winters the era classification names as a winter of their own.
EraWinters ==
    {r.winter_year : r \in {x \in dash.output.winter_summary : x.era = "2025/26"}}

\* The winters of the streaks highlighted.
StreakWinters ==
    {WinterOf(r.year, r.month) : r \in {x \in dash.output.streaks : x.in_current_winter}}

\* C27: whatever the latest date in the table, the winter flagged as current
\* in the freezing and sky charts, the winter of the January flagged in the
\* harshness chart, the winter the era classification names and the winter
\* whose streaks are highlighted are one and the same winter.
C27_CurrentAgrees ==
    BerlinDone =>
        Cardinality(ChartWinters \cup JanuaryWinters \cup EraWinters \cup StreakWinters) <= 1

(***************************************************************************)
(* C28.  The token and the connection.                                     *)
(***************************************************************************)
TokenDone == dash.app = "chess" /\ dash.done

\* The sources in the order of the claim.
SourcesInOrder ==
    <<dash.input.secrets, dash.input.env, dash.input.bruin_env, dash.input.file>>

\* A source holds a token when it holds a str that is not empty.
HoldsToken(v) == v # <<>> /\ v[1] > 0

\* The token of a value: its characters without the white space and the
\* quotes around it.
TokenOf(v) ==
    LET NotAround(c) == c \notin {32, 34}
    IN SelectSeq(v, NotAround)

\* C28: load_token never raises; it returns the token of the first of
\* st.secrets, MOTHERDUCK_TOKEN, BRUIN_CONNECTION_MOTHERDUCK_PROD_TOKEN and
\* .bruin.yml that holds a non-empty one, and no token only when none of them
\* holds one; the connection is opened only with a non-empty token.
C28_FirstTokenFound ==
    TokenDone =>
        LET holders == {i \in 1..4 : HoldsToken(SourcesInOrder[i])}
        IN /\ ~dash.output.raised
           /\ holders # {} =>
                 \E i \in holders :
                     /\ \A j \in holders : i <= j
                     /\ dash.output.token = TokenOf(SourcesInOrder[i])
           /\ holders = {} => dash.output.token \in {None, <<>>}
           /\ dash.output.connected =>
                 (dash.output.token # <<>> /\ dash.output.token[1] > 0)

====
